---- MODULE Spec2Model ----
(***************************************************************************)
(* Model of the platformer engine of nimble-quest: the player controller   *)
(* (class Player, richest snapshot: triple jump, wall jump, glide, dash)   *)
(* and the level goal / defeat state machine of the GameEngine component.  *)
(*                                                                         *)
(* Arithmetic.  The code computes on JavaScript numbers.  The model keeps  *)
(* them exact as integers: a time step dt is in milliseconds, a velocity   *)
(* in 1/1000 pixel per second and a position in 1/1000000 pixel, so that   *)
(* v + a * dt and x + v * dt are computed without rounding.                *)
(***************************************************************************)
EXTENDS Integers, Sequences, FiniteSets

VARIABLES
    player,       \* the Player object held by playerRef.current
    tick,         \* number of Player.update calls made so far (SpecPlayer)
    \* React state of the GameEngine component
    levelIdx,     \* index of the current level, from 0
    levelState,   \* [gems: collected flags, completed, transitioning]
    pLives, pScore, pGems, pMaxGems,
    enemiesState, \* enemy records of the last frame
    projectiles,  \* projectile records of the last frame
    \* the running instance of the main-loop effect
    loop,         \* what its frame closure captured at the render it ran in
    defeatTimeoutHandle, \* TRUE while the 1700 ms defeat timer is scheduled
    rafScheduled, \* TRUE while a requestAnimationFrame(frame) is pending
    completeTimers, \* pending 1900 ms level-advance timers: captured levelIdx
    events,       \* number of notifications sent to the collaborators
    \* the keyboard
    controlsRef,  \* controlsRef.current, written by the key handlers
    held,         \* which keys are physically down
    seen,         \* per key: updates that saw its pressed flag in this press
    presses       \* physical presses made so far (SpecInput)

engineVars == <<levelIdx, levelState, pLives, pScore, pGems, pMaxGems,
                enemiesState, projectiles, loop, defeatTimeoutHandle,
                rafScheduled, completeTimers, events>>

inputVars == <<controlsRef, held, seen, presses>>

vars == <<player, tick, engineVars, inputVars>>

----------------------------------------------------------------------------
(* Units *)
PX == 1000 * 1000          \* position units per pixel
VEL == 1000                \* velocity units per pixel/second

(* Player constants, levels.js 493-510 (same values in Player.js 13-23) *)
PLAYER_WIDTH == 12
PLAYER_HEIGHT == 14
MOVE_SPEED == 90
JUMP_VELOCITY == -195
GRAVITY == 650
GLIDE_GRAVITY == 170
MAX_GLIDE_FALL_SPEED == 58
DASH_VELOCITY == 260
PLAYER_GAME_WIDTH == 320
PLAYER_GAME_HEIGHT == 180
MAX_JUMPS == 3
WALL_JUMP_X_VELOCITY == 150
WALL_JUMP_Y_VELOCITY == -170
\* WALL_JUMP_BUFFER_TIME = 0.16 s, in milliseconds
WALL_JUMP_BUFFER_TIME == 160
\* the air-jump factor 0.93 of JUMP_VELOCITY, in thousandths
AIR_JUMP_FACTOR == 930
\* the 0.8 px threshold of the stepping loops, in position units
STEP_EPS == 800000

PW == PLAYER_WIDTH * PX
PH == PLAYER_HEIGHT * PX

----------------------------------------------------------------------------
(* Math helpers *)
Abs(v) == IF v < 0 THEN -v ELSE v

Sign(v) == IF v > 0 THEN 1 ELSE IF v < 0 THEN -1 ELSE 0

\* Math.round on a position: nearest whole pixel, halves rounded up
Round(v) == ((v + (PX \div 2)) \div PX) * PX

\* strict AABB overlap; touching edges do not overlap
rectsOverlap(ax, ay, aw, ah, bx, by, bw, bh) ==
    /\ ax < bx + bw
    /\ ax + aw > bx
    /\ ay < by + bh
    /\ ay + ah > by

\* the collision tester the frame loop hands to Player.update: does the box
\* overlap any platform of the level (platform data is in whole pixels)
collisionTester(plats, x, y, w, h) ==
    \E i \in 1..Len(plats) :
        rectsOverlap(x, y, w, h,
                     plats[i].x * PX, plats[i].y * PX, plats[i].w * PX, plats[i].h * PX)

----------------------------------------------------------------------------
(* Player *)

\* new Player({x, y})
NewPlayer(x, y) ==
    [ x |-> x * PX, y |-> y * PX, vx |-> 0, vy |-> 0,
      onGround |-> FALSE, dashAvailable |-> TRUE, facing |-> 1,
      jumpCount |-> 0,
      touchingWallLeft |-> FALSE, touchingWallRight |-> FALSE,
      lastWallDir |-> 0, wallJumpBufferTimer |-> 0,
      isGliding |-> FALSE ]

\* Player.overlapsRect
overlapsRect(p, x, y, w, h) ==
    /\ p.x < x + w
    /\ p.x + PW > x
    /\ p.y < y + h
    /\ p.y + PH > y

\* a faulty horizontal move that goes to desiredX without testing the way
StepXThrough(plats, x, y, desiredX, step, movedX) ==
    [x |-> desiredX, hit |-> FALSE, movedX |-> TRUE, n |-> 0]

\* step 5, the horizontal stepping loop: one pixel at a time toward desiredX,
\* stopping before the first colliding pixel; n counts the passes of the loop
RECURSIVE StepX(_, _, _, _, _, _)
StepX(plats, x, y, desiredX, step, movedX) ==
    IF Abs(desiredX - x) > STEP_EPS
    THEN IF collisionTester(plats, x + step * PX, y, PW, PH)
         THEN [x |-> x, hit |-> TRUE, movedX |-> movedX, n |-> 1]
         ELSE LET r == StepX(plats, x + step * PX, y, desiredX, step, TRUE)
              IN  [r EXCEPT !.n = @ + 1]
    ELSE [x |-> x, hit |-> FALSE, movedX |-> movedX, n |-> 0]

\* a faulty vertical loop that advances half a pixel per pass
RECURSIVE StepYHalf(_, _, _, _, _)
StepYHalf(plats, x, y, desiredY, step) ==
    IF Abs(desiredY - y) > STEP_EPS
    THEN IF collisionTester(plats, x, y + step * (PX \div 2), PW, PH)
         THEN [y |-> y, hit |-> TRUE, n |-> 1]
         ELSE LET r == StepYHalf(plats, x, y + step * (PX \div 2), desiredY, step)
              IN  [r EXCEPT !.n = @ + 1]
    ELSE [y |-> y, hit |-> FALSE, n |-> 0]

\* step 6, the vertical stepping loop; n counts the passes of the loop
RECURSIVE StepY(_, _, _, _, _)
StepY(plats, x, y, desiredY, step) ==
    IF Abs(desiredY - y) > STEP_EPS
    THEN IF collisionTester(plats, x, y + step * PX, PW, PH)
         THEN [y |-> y, hit |-> TRUE, n |-> 1]
         ELSE LET r == StepY(plats, x, y + step * PX, desiredY, step)
              IN  [r EXCEPT !.n = @ + 1]
    ELSE [y |-> y, hit |-> FALSE, n |-> 0]

\* a faulty fallback that takes the desired y without testing it
SubPixelYUnchecked(plats, x, y, desiredY) == desiredY

\* the sub-pixel fallback that follows the vertical loop: the desired y is
\* taken whenever the box does not collide there
SubPixelY(plats, x, y, desiredY) ==
    IF ~collisionTester(plats, x, desiredY, PW, PH) THEN desiredY ELSE y

\* a faulty jump guard that lets a jump through at jumpCount = MAX_JUMPS
CanJumpOffByOne(onGround, jumpCount) ==
    \/ onGround /\ jumpCount = 0
    \/ ~onGround /\ jumpCount > 0 /\ jumpCount <= MAX_JUMPS

\* step 8, the ordinary / extra jump condition
CanJump(onGround, jumpCount) ==
    \/ onGround /\ jumpCount = 0
    \/ ~onGround /\ jumpCount > 0 /\ jumpCount < MAX_JUMPS

\* a faulty dash test that does not look at the charge
DashNowAlways(dashPressed, dashAvailable) == dashPressed

\* step 2, the dash condition
DashNow(dashPressed, dashAvailable) == dashPressed /\ dashAvailable

\* a faulty landing that keeps the jump counter
LandedJumpCountKept(flush, jumpCount) == jumpCount

\* step 7, the jump counter after the flush ground check
LandedJumpCount(flush, jumpCount) == IF flush THEN 0 ELSE jumpCount

\* a faulty arbitration that never takes the wall jump
WallJumpsNever(jumpPressed, onGround, timer, wallDir) == FALSE

\* step 8a, the wall-jump condition
WallJumps(jumpPressed, onGround, timer, wallDir) ==
    jumpPressed /\ ~onGround /\ timer > 0 /\ wallDir # 0

\* a faulty horizontal clamp that forgets the left world edge
ClampXRightOnly(x) ==
    IF x > (PLAYER_GAME_WIDTH - PLAYER_WIDTH) * PX
    THEN (PLAYER_GAME_WIDTH - PLAYER_WIDTH) * PX ELSE x

\* step 9, the horizontal world clamp
ClampX(x) ==
    IF x < 0 THEN 0
    ELSE IF x > (PLAYER_GAME_WIDTH - PLAYER_WIDTH) * PX
         THEN (PLAYER_GAME_WIDTH - PLAYER_WIDTH) * PX ELSE x

\* a faulty horizontal intent that keeps the previous vx when no key is held
MoveVxKept(left, right, vx) ==
    IF left THEN -MOVE_SPEED * VEL ELSE IF right THEN MOVE_SPEED * VEL ELSE vx

\* step 1, the horizontal intent: vx is assigned on every branch, so the vx
\* the previous update left is never read
MoveVx(left, right, vx) ==
    IF left THEN -MOVE_SPEED * VEL ELSE IF right THEN MOVE_SPEED * VEL ELSE 0

\* Player.update(dt, controls, collisionTester), dt in milliseconds
PlayerUpdate(p, dt, c, plats) ==
    LET \* wall contact probe
        leftWall == collisionTester(plats, p.x - PX, p.y, PX, PH)
        rightWall == collisionTester(plats, p.x + PW, p.y, PX, PH)
        airWall == ~p.onGround /\ (leftWall \/ rightWall)
        decay == ~p.onGround /\ p.wallJumpBufferTimer > 0
        wallDir0 == IF airWall THEN (IF leftWall THEN -1 ELSE 1)
                    ELSE IF decay THEN p.lastWallDir ELSE 0
        timer0 == IF airWall THEN WALL_JUMP_BUFFER_TIME
                  ELSE IF decay
                       THEN (IF p.wallJumpBufferTimer - dt < 0 THEN 0
                             ELSE p.wallJumpBufferTimer - dt)
                       ELSE 0
        \* glide arbitration
        glide0 == c.glide /\ ~p.onGround /\ p.vy > 0
        \* 1. horizontal movement and facing
        vx0 == MoveVx(c.left, c.right, p.vx)
        facing0 == IF c.left THEN -1 ELSE IF c.right THEN 1 ELSE p.facing
        \* 2. dash
        dashNow == DashNow(c.dashPressed, p.dashAvailable)
        vx1 == IF dashNow THEN facing0 * DASH_VELOCITY * VEL ELSE vx0
        dash1 == IF dashNow THEN FALSE ELSE p.dashAvailable
        \* 3. gravity
        vyG == p.vy + (IF glide0 THEN GLIDE_GRAVITY ELSE GRAVITY) * dt
        vy0 == IF glide0 /\ vyG > MAX_GLIDE_FALL_SPEED * VEL
               THEN MAX_GLIDE_FALL_SPEED * VEL ELSE vyG
        \* 4. proposed position
        nextX == p.x + vx1 * dt
        nextY == p.y + vy0 * dt
        \* 5. horizontal stepping
        sx == StepX(plats, p.x, p.y, nextX, Sign(nextX - p.x), FALSE)
        vx2 == IF sx.hit THEN 0 ELSE vx1
        x1 == IF ~sx.movedX /\ ~collisionTester(plats, nextX, p.y, PW, PH)
              THEN nextX ELSE sx.x
        \* 6. vertical stepping
        sy == StepY(plats, x1, p.y, nextY, Sign(nextY - p.y))
        vy1 == IF sy.hit THEN 0 ELSE vy0
        y1 == SubPixelY(plats, x1, sy.y, nextY)
        \* 7. flush ground check
        flush == vy1 >= 0 /\ collisionTester(plats, x1, y1 + PX, PW, PH)
        y2 == IF flush THEN Round(y1) ELSE y1
        vy2 == IF flush THEN 0 ELSE vy1
        dash2 == IF flush THEN TRUE ELSE dash1
        jc0 == LandedJumpCount(flush, p.jumpCount)
        glide1 == IF flush THEN FALSE ELSE glide0
        \* 8. jump arbitration
        wallJump == WallJumps(c.jumpPressed, flush, timer0, wallDir0)
        jump == c.jumpPressed /\ ~wallJump /\ CanJump(flush, jc0)
        vy3 == IF wallJump THEN WALL_JUMP_Y_VELOCITY * VEL
               ELSE IF jump
                    THEN (IF jc0 = 0 THEN JUMP_VELOCITY * VEL
                          ELSE (JUMP_VELOCITY * VEL * AIR_JUMP_FACTOR) \div 1000)
                    ELSE vy2
        vx3 == IF wallJump THEN -wallDir0 * WALL_JUMP_X_VELOCITY * VEL ELSE vx2
        jc1 == IF wallJump THEN 1 ELSE IF jump THEN jc0 + 1 ELSE jc0
        timer1 == IF wallJump THEN 0 ELSE timer0
        facing1 == IF wallJump THEN -wallDir0 ELSE facing0
        ground1 == IF wallJump \/ jump THEN FALSE ELSE flush
        \* world-floor fallback reset
        floorY == (PLAYER_GAME_HEIGHT - PLAYER_HEIGHT - 1) * PX
        atFloor == y2 >= floorY
        jc2 == IF atFloor THEN 0 ELSE jc1
        timer2 == IF atFloor THEN 0 ELSE timer1
        glide2 == IF atFloor THEN FALSE ELSE glide1
        \* 9. world bounds clamp
        x2 == ClampX(x1)
        y3 == IF y2 < 0 THEN 0 ELSE y2
        below == y3 > floorY
    IN  [ x |-> x2,
          y |-> IF below THEN floorY ELSE y3,
          vx |-> vx3,
          vy |-> IF below THEN 0 ELSE vy3,
          onGround |-> IF below THEN TRUE ELSE ground1,
          dashAvailable |-> dash2,
          facing |-> facing1,
          jumpCount |-> IF below THEN 0 ELSE jc2,
          touchingWallLeft |-> leftWall,
          touchingWallRight |-> rightWall,
          lastWallDir |-> wallDir0,
          wallJumpBufferTimer |-> timer2,
          isGliding |-> IF below THEN FALSE ELSE glide2 ]

----------------------------------------------------------------------------
(* GameEngine: constants and level data *)

GAME_WIDTH == 640
GAME_HEIGHT == 360
\* gem pickup box: 12 x 12 centred on the gem (half side 6)
GEM_HALF == 6
GEM_SCORE == 250
LEVEL_BONUS == 1000
FALL_MARGIN == 32
HOPPER_GRAVITY == 440
HOPPER_DRIFT == 44
HOPPER_LAUNCH_DX == 12
HOPPER_GROUND_MARGIN == 20
CHASER_BAND == 30
PROJECTILE_SPEED == 110
PROJECTILE_MARGIN == 10
\* where a level starts the player: new Player({x: 16, y: 120})
SPAWN_X == 16
SPAWN_Y == 120
START_LIVES == 3

\* Level table.  The engine takes its levels from the level data provider;
\* the model runs it on three small levels of the same record shape
\* (lengths in pixels, speeds in pixels per second, times in milliseconds).
\* Every level has a floor slab under the spawn point and a wall that
\* closes the playfield on the right, and names a playerStart, which the
\* engine never reads: it spawns the player at (16, 120).
Floor == [x |-> 0, y |-> 134, w |-> 640, h |-> 20]
Wall == [x |-> 80, y |-> 0, w |-> 10, h |-> 134]

LEVELS ==
    << [ playerStart |-> [x |-> 36, y |-> 120],
         platforms |-> <<Floor, Wall>>,
         gems |-> << [x |-> 30, y |-> 127] >>,
         exit |-> [x |-> 40, y |-> 110, w |-> 20, h |-> 24],
         enemies |-> << [type |-> "walker", x |-> 60, y |-> 122, dir |-> 1,
                         patrolMin |-> 50, patrolMax |-> 68, speed |-> 50] >> ],
       [ playerStart |-> [x |-> 36, y |-> 120],
         platforms |-> <<Floor, Wall>>,
         gems |-> << [x |-> 30, y |-> 127], [x |-> 60, y |-> 127] >>,
         exit |-> [x |-> 50, y |-> 110, w |-> 20, h |-> 24],
         enemies |-> << [type |-> "walker", x |-> 60, y |-> 122, dir |-> 1,
                         patrolMin |-> 50, patrolMax |-> 68, speed |-> 50],
                        [type |-> "projectile", x |-> 0, y |-> 122, dir |-> -1,
                         cooldown |-> 2000, t |-> 0] >> ],
       [ playerStart |-> [x |-> 36, y |-> 120],
         platforms |-> <<Floor, Wall>>,
         gems |-> << [x |-> 30, y |-> 127] >>,
         exit |-> [x |-> 60, y |-> 110, w |-> 20, h |-> 24],
         enemies |-> << [type |-> "chaser", x |-> 70, y |-> 122,
                         speed |-> 60, activeRange |-> 40],
                        [type |-> "hopper", x |-> 100, y |-> 100, dir |-> 1,
                         jumpCooldown |-> 1200, jumpTimer |-> 0, jumpVy |-> -100],
                        [type |-> "walker", x |-> 130, y |-> 122, dir |-> 1,
                         patrolMin |-> 121, patrolMax |-> 130, speed |-> 50],
                        [type |-> "projectile", x |-> 200, y |-> 122, dir |-> 1,
                         cooldown |-> 45, t |-> 0],
                        [type |-> "projectile", x |-> 639, y |-> 100, dir |-> 1,
                         cooldown |-> 45, t |-> 0] >> ] >>

NumLevels == Len(LEVELS)

\* LEVELS[i], with the code's indices from 0
Level(i) == LEVELS[i + 1]

clamp(val, min, max) ==
    LET lo == IF val < max THEN val ELSE max
    IN  IF min > lo THEN min ELSE lo

----------------------------------------------------------------------------
(* Enemies *)

\* createEnemyInstance: a walker becomes a WalkerSlime object, any other
\* enemy a plain copy of its level record.  A hopper record has no vy and no
\* onGround field yet; the model writes the values the code reads for a
\* missing field (0 and false).
createEnemyInstance(data) ==
    IF data.type = "walker"
    THEN [type |-> "walker", x |-> data.x * PX, y |-> data.y * PX, dir |-> data.dir,
          patrolMin |-> data.patrolMin * PX, patrolMax |-> data.patrolMax * PX,
          speed |-> data.speed]
    ELSE IF data.type = "hopper"
    THEN [type |-> "hopper", x |-> data.x * PX, y |-> data.y * PX, dir |-> data.dir,
          jumpCooldown |-> data.jumpCooldown, jumpTimer |-> data.jumpTimer,
          jumpVy |-> data.jumpVy * VEL, vy |-> 0, onGround |-> FALSE]
    ELSE IF data.type = "chaser"
    THEN [type |-> "chaser", x |-> data.x * PX, y |-> data.y * PX,
          speed |-> data.speed, activeRange |-> data.activeRange * PX]
    ELSE [type |-> "projectile", x |-> data.x * PX, y |-> data.y * PX, dir |-> data.dir,
          cooldown |-> data.cooldown, t |-> data.t]

\* the enemy list the level-init effect puts in enemiesState
LevelEnemies(i) ==
    [k \in 1..Len(Level(i).enemies) |-> createEnemyInstance(Level(i).enemies[k])]

\* only WalkerSlime objects have an update method; the frame loop keeps such
\* an object itself and copies every other record
HasUpdate(en) == en.type = "walker"

\* WalkerSlime.update(dt), called through updateEnemies
WalkerSlimeUpdate(en, dt) ==
    LET x1 == en.x + en.dir * en.speed * dt * 1000
    IN  IF x1 < en.patrolMin THEN [en EXCEPT !.x = en.patrolMin, !.dir = 1]
        ELSE IF x1 > en.patrolMax THEN [en EXCEPT !.x = en.patrolMax, !.dir = -1]
        ELSE [en EXCEPT !.x = x1]

\* a faulty walker branch that turns the walker around on every frame
FrameWalkerTurns(en, dt) ==
    [en EXCEPT !.x = clamp(en.x + en.dir * en.speed * dt * 1000, en.patrolMin, en.patrolMax),
               !.dir = -en.dir]

\* the frame loop's own walker branch
FrameWalker(en, dt) ==
    LET x1 == clamp(en.x + en.dir * en.speed * dt * 1000, en.patrolMin, en.patrolMax)
        turn == \/ en.dir = 1 /\ x1 >= en.patrolMax
                \/ en.dir = -1 /\ x1 <= en.patrolMin
    IN  [en EXCEPT !.x = x1, !.dir = IF turn THEN -en.dir ELSE en.dir]

\* the frame loop's hopper branch
FrameHopper(en, dt, plats) ==
    LET timer == en.jumpTimer - dt
        vy0 == IF ~en.onGround THEN en.vy + HOPPER_GRAVITY * dt ELSE en.vy
        nextY == en.y + vy0 * dt
        lands(pl) == /\ en.x + 11 * PX > pl.x * PX
                     /\ en.x < (pl.x + pl.w) * PX
                     /\ nextY + 13 * PX > pl.y * PX
                     /\ en.y + 10 * PX < pl.y * PX
                     /\ nextY + 13 * PX <= (pl.y + pl.h) * PX
        hits == {i \in 1..Len(plats) : lands(plats[i])}
        first == CHOOSE i \in hits : \A j \in hits : i <= j
        onPlat == hits # {}
        y1 == IF onPlat THEN (plats[first].y - 13) * PX ELSE nextY
        groundY == (GAME_HEIGHT - HOPPER_GROUND_MARGIN) * PX
        onWorld == y1 + 13 * PX > groundY
        y2 == IF onWorld THEN groundY - 13 * PX ELSE y1
        vy1 == IF onPlat \/ onWorld THEN 0 ELSE vy0
        grounded == onPlat \/ onWorld
        maxX == (GAME_WIDTH - 12) * PX
    IN  IF grounded /\ timer <= 0
        THEN [en EXCEPT !.jumpTimer = en.jumpCooldown, !.vy = en.jumpVy,
                        !.dir = -en.dir, !.onGround = TRUE, !.y = y2,
                        !.x = clamp(en.x - en.dir * HOPPER_LAUNCH_DX * PX, 0, maxX)]
        ELSE IF ~grounded
        THEN [en EXCEPT !.jumpTimer = timer, !.vy = vy1, !.onGround = FALSE, !.y = y2,
                        !.x = clamp(en.x + en.dir * HOPPER_DRIFT * dt * 1000, 0, maxX)]
        ELSE [en EXCEPT !.jumpTimer = timer, !.vy = vy1, !.onGround = TRUE, !.y = y2]

\* a faulty chaser branch that pursues the player from any distance
FrameChaserAlways(en, dt, p) ==
    [en EXCEPT !.x = clamp(en.x + Sign(p.x - en.x) * en.speed * dt * 1000,
                           0, (GAME_WIDTH - 14) * PX)]

\* the frame loop's chaser branch; p is the player before this frame's update
FrameChaser(en, dt, p) ==
    LET dx == p.x - en.x
        dy == Abs(p.y - en.y)
    IN  IF Abs(dx) < en.activeRange /\ dy < CHASER_BAND * PX
        THEN [en EXCEPT !.x = clamp(en.x + Sign(dx) * en.speed * dt * 1000,
                                    0, (GAME_WIDTH - 14) * PX)]
        ELSE en

\* the frame loop's projectile-shooter branch: the timer after adding dt
ShooterTime(en, dt) == IF en.t # 0 THEN en.t + dt ELSE dt

\* a faulty cooldown test that never lets the shooter fire
ShooterFiresNever(en, dt) == FALSE

\* the shooter's cooldown test
ShooterFires(en, dt) == ShooterTime(en, dt) >= en.cooldown

FrameShooter(en, dt) ==
    [en EXCEPT !.t = IF ShooterFires(en, dt) THEN 0 ELSE ShooterTime(en, dt)]

\* the projectile a firing shooter pushes
SpawnProjectile(en) ==
    [x |-> en.x + 7 * PX, y |-> en.y + 10 * PX, vx |-> en.dir * PROJECTILE_SPEED,
     vy |-> 0, t |-> 0]

\* one enemy through updateEnemies and then the frame loop's branch of its type
UpdateEnemy(en, dt, p, plats) ==
    IF en.type = "walker" THEN FrameWalker(WalkerSlimeUpdate(en, dt), dt)
    ELSE IF en.type = "hopper" THEN FrameHopper(en, dt, plats)
    ELSE IF en.type = "chaser" THEN FrameChaser(en, dt, p)
    ELSE FrameShooter(en, dt)

\* a faulty projectile pass that moves the projectiles and drops none
MoveProjectilesKeepAll(ps, dt) ==
    [k \in 1..Len(ps) |->
        [ps[k] EXCEPT !.x = ps[k].x + ps[k].vx * dt * 1000,
                      !.y = ps[k].y + ps[k].vy * dt * 1000]]

\* move every projectile, then drop those outside the horizontal margin
MoveProjectiles(ps, dt) ==
    LET moved == [k \in 1..Len(ps) |->
                    [ps[k] EXCEPT !.x = ps[k].x + ps[k].vx * dt * 1000,
                                  !.y = ps[k].y + ps[k].vy * dt * 1000]]
        inside(q) == q.x > -PROJECTILE_MARGIN * PX
                     /\ q.x < (GAME_WIDTH + PROJECTILE_MARGIN) * PX
    IN  SelectSeq(moved, inside)

\* the enemy / projectile hit tests against the updated player
EnemyHit(p, ens) ==
    \E k \in 1..Len(ens) :
        /\ ens[k].type \in {"walker", "hopper", "chaser"}
        /\ rectsOverlap(p.x, p.y, PW, PH, ens[k].x, ens[k].y,
                        (IF ens[k].type = "hopper" THEN 12 ELSE 14) * PX,
                        (IF ens[k].type = "hopper" THEN 13 ELSE 12) * PX)

ProjectileHit(p, ps) ==
    \E k \in 1..Len(ps) :
        rectsOverlap(p.x, p.y, PW, PH, ps[k].x - 3 * PX, ps[k].y - 3 * PX, 7 * PX, 7 * PX)

\* controlsRef with no key held
NoKeys ==
    [left |-> FALSE, right |-> FALSE, jumpPressed |-> FALSE,
     dashPressed |-> FALSE, glide |-> FALSE]

\* the initial controlsRef.current
NoControls ==
    [left |-> FALSE, right |-> FALSE, jump |-> FALSE, jumpPressed |-> FALSE,
     dash |-> FALSE, dashPressed |-> FALSE, glide |-> FALSE]

\* the keys the keyboard model presses: one key of KEYMAP.jump, one of KEYMAP.dash
InputKeys == {"jump", "dash"}

\* physical key presses in a run of the keyboard model
MaxPresses == 3

\* handleKeyUp for a key of the KEYMAP group k
handleKeyUp(c, k) ==
    IF k = "left" THEN [c EXCEPT !.left = FALSE]
    ELSE IF k = "right" THEN [c EXCEPT !.right = FALSE]
    ELSE IF k = "jump" THEN [c EXCEPT !.jump = FALSE, !.jumpPressed = FALSE]
    ELSE IF k = "dash" THEN [c EXCEPT !.dash = FALSE, !.dashPressed = FALSE]
    ELSE [c EXCEPT !.glide = FALSE]

\* handleKeyDown for a key of the KEYMAP group k
handleKeyDown(c, k) ==
    IF k = "left" THEN [c EXCEPT !.left = TRUE]
    ELSE IF k = "right" THEN [c EXCEPT !.right = TRUE]
    ELSE IF k = "jump"
         THEN [c EXCEPT !.jumpPressed = IF ~c.jump THEN TRUE ELSE @, !.jump = TRUE]
    ELSE IF k = "dash"
         THEN [c EXCEPT !.dashPressed = IF ~c.dash THEN TRUE ELSE @, !.dash = TRUE]
    ELSE [c EXCEPT !.glide = TRUE]

\* the controls object frame() hands to player.update
ControlsRead(c) ==
    [left |-> c.left, right |-> c.right, jumpPressed |-> c.jumpPressed,
     dashPressed |-> c.dashPressed, glide |-> c.glide]

\* the pressed flag of a key
PressedFlag(c, k) == IF k = "jump" THEN c.jumpPressed ELSE c.dashPressed

----------------------------------------------------------------------------
(* GameEngine: React state, the main-loop effect and its timers.

   A step of the engine is one callback (an animation frame or a timer)
   together with the render React makes of the state it set and the effects
   that render re-runs: the state updates of a callback are batched, and the
   effects of the commit run before the next animation frame. *)

\* the level-change effect's setLevelState
FreshLevelState(i) ==
    [gems |-> [k \in 1..Len(Level(i).gems) |-> FALSE],
     completed |-> FALSE, transitioning |-> FALSE]

\* a faulty closure whose frame never sees a transition
ClosureBlind(bound, ls, ens, ps, lives) ==
    [gemsBound |-> bound, enemies |-> ens, projectiles |-> ps,
     completed |-> FALSE, transitioning |-> FALSE,
     pLives |-> lives]

\* what an instance of the main-loop effect closes over: the state of the
\* render it ran in.  gemsBound says that its gem array holds the gem
\* objects of levelState (the frame marks them in place); the closure of
\* the first render holds the empty initial array instead.
Closure(bound, ls, ens, ps, lives) ==
    [gemsBound |-> bound, enemies |-> ens, projectiles |-> ps,
     completed |-> ls.completed, transitioning |-> ls.transitioning,
     pLives |-> lives]

NoEvents == [nextLevel |-> 0, allComplete |-> 0, defeated |-> 0,
             gameOver |-> 0, respawn |-> 0]

\* the component after it mounted on level 0 with 3 lives: the level-change
\* and enemy-init effects have set their state, and the main-loop effect
\* still runs with what the first render had (its dependencies,
\* levelIdx and levelState.transitioning, did not change)
EngineInit ==
    /\ levelIdx = 0
    /\ levelState = FreshLevelState(0)
    /\ pLives = START_LIVES
    /\ pScore = 0
    /\ pGems = 0
    /\ pMaxGems = Len(Level(0).gems)
    /\ enemiesState = LevelEnemies(0)
    /\ projectiles = <<>>
    /\ loop = Closure(FALSE, [completed |-> FALSE, transitioning |-> FALSE],
                      <<>>, <<>>, START_LIVES)
    /\ defeatTimeoutHandle = FALSE
    /\ rafScheduled = TRUE
    /\ completeTimers = <<>>
    /\ events = NoEvents
    /\ controlsRef = NoControls
    /\ held = [k \in InputKeys |-> FALSE]
    /\ seen = [k \in InputKeys |-> 0]
    /\ presses = 0

\* a faulty dependency list without levelState.transitioning: [levelIdx]
MainLoopDepsLevelOnly(oldIdx, newIdx, oldTransitioning, newTransitioning) ==
    oldIdx # newIdx

\* the dependency list of the main-loop effect: [levelIdx, levelState.transitioning]
MainLoopDepsChanged(oldIdx, newIdx, oldTransitioning, newTransitioning) ==
    oldIdx # newIdx \/ oldTransitioning # newTransitioning

\* a faulty advance that sets the level index it captured
AdvanceTargetSame(lvl) == lvl

\* the level index the level-advance timer sets: setLevelIdx(levelIdx + 1)
AdvanceTarget(lvl) == lvl + 1

\* a faulty notification test that announces a next level after every level
NotifiesNextLevelAlways(idx) == TRUE

\* onLevelComplete's test for the next-level notification
NotifiesNextLevel(idx) == idx + 1 < NumLevels

\* frame()'s early returns; running is true for the current effect instance
FrameRuns(idx, transitioning) ==
    idx + 1 <= NumLevels /\ ~transitioning

\* a faulty pickup test that does not look at the collected flag
GemPickedAgain(collected, p, gem) ==
    overlapsRect(p, (gem.x - GEM_HALF) * PX, (gem.y - GEM_HALF) * PX,
                 2 * GEM_HALF * PX, 2 * GEM_HALF * PX)

\* processLevelLogic's pickup test for one gem
GemPicked(collected, p, gem) ==
    ~collected /\ overlapsRect(p, (gem.x - GEM_HALF) * PX, (gem.y - GEM_HALF) * PX,
                               2 * GEM_HALF * PX, 2 * GEM_HALF * PX)

ExitOverlap(p, i) ==
    overlapsRect(p, Level(i).exit.x * PX, Level(i).exit.y * PX,
                 Level(i).exit.w * PX, Level(i).exit.h * PX)

\* a faulty defeat update that writes a whole new level state
DefeatLevelStateReset(ls) ==
    [gems |-> ls.gems, completed |-> FALSE, transitioning |-> TRUE]

\* defeatPlayer's setLevelState
DefeatLevelState(ls) == [ls EXCEPT !.transitioning = TRUE]

\* onLevelComplete's setLevelState
CompleteLevelState(ls) == [ls EXCEPT !.completed = TRUE, !.transitioning = TRUE]

\* how many of a frame's defeatPlayer() calls get past its handle guard
DefeatsApplied(handle, calls) ==
    IF handle THEN 0 ELSE IF calls > 0 THEN 1 ELSE 0

RemoveAt(s, j) == [k \in 1..(Len(s) - 1) |-> IF k < j THEN s[k] ELSE s[k + 1]]

\* the frame's enemy AI pass over the enemy list the closure captured
FrameEnemies(dt) ==
    [k \in 1..Len(loop.enemies) |->
        UpdateEnemy(loop.enemies[k], dt, player, Level(levelIdx).platforms)]

\* the frame's projectile list: the captured ones and this frame's shots, moved
FrameProjectiles(dt) ==
    LET firing(en) == en.type = "projectile" /\ ShooterFires(en, dt)
        shooters == SelectSeq(loop.enemies, firing)
        spawned == [k \in 1..Len(shooters) |-> SpawnProjectile(shooters[k])]
    IN  MoveProjectiles(loop.projectiles \o spawned, dt)

\* The rest of a frame, once the enemies, the projectiles and the player p
\* have been updated: level logic, hazards, and the commit of the new state.
FrameLogic(p, newEnemies, newProjectiles) ==
    LET curLevel == Level(levelIdx)
        \* processLevelLogic on the closure's gem array
        gemsArr == IF loop.gemsBound THEN levelState.gems ELSE <<>>
        picked == {k \in 1..Len(gemsArr) : GemPicked(gemsArr[k], p, curLevel.gems[k])}
        gemsNow == [k \in 1..Len(gemsArr) |-> gemsArr[k] \/ k \in picked]
        complete == /\ \A k \in 1..Len(gemsNow) : gemsNow[k]
                    /\ ExitOverlap(p, levelIdx)
        ls1 == IF picked # {} THEN [levelState EXCEPT !.gems = gemsNow] ELSE levelState
        ls2 == IF complete THEN CompleteLevelState(ls1) ELSE ls1
        \* fall death, enemy and projectile collision
        hazardsChecked == ~loop.completed /\ ~loop.transitioning
        fell == p.y > (GAME_HEIGHT + FALL_MARGIN) * PX
        calls == IF hazardsChecked
                 THEN (IF fell THEN 1 ELSE 0)
                      + (IF EnemyHit(p, newEnemies) THEN 1 ELSE 0)
                      + (IF ProjectileHit(p, newProjectiles) THEN 1 ELSE 0)
                 ELSE 0
        defeats == DefeatsApplied(defeatTimeoutHandle, calls)
        ls3 == IF defeats > 0 THEN DefeatLevelState(ls2) ELSE ls2
        lives == IF pLives - defeats > 0 THEN pLives - defeats ELSE 0
        \* the render of the new state re-runs the main-loop effect when its
        \* dependencies changed: its cleanup clears the defeat timer
        rerun == MainLoopDepsChanged(levelIdx, levelIdx,
                                     levelState.transitioning, ls3.transitioning)
    IN  /\ player' = p
        /\ enemiesState' = newEnemies
        /\ projectiles' = newProjectiles
        /\ levelState' = ls3
        /\ pGems' = pGems + Cardinality(picked)
        /\ pScore' = pScore + GEM_SCORE * Cardinality(picked)
                            + (IF complete THEN LEVEL_BONUS ELSE 0)
        /\ pLives' = lives
        /\ completeTimers' = IF complete THEN Append(completeTimers, levelIdx)
                             ELSE completeTimers
        /\ events' = [events EXCEPT
               !.nextLevel = @ + (IF complete /\ NotifiesNextLevel(levelIdx) THEN 1 ELSE 0),
               !.allComplete = @ + (IF complete /\ ~NotifiesNextLevel(levelIdx)
                                       /\ levelIdx + 1 >= NumLevels THEN 1 ELSE 0),
               !.defeated = @ + defeats]
        /\ IF rerun
           THEN /\ loop' = Closure(TRUE, ls3, newEnemies, newProjectiles, lives)
                /\ defeatTimeoutHandle' = FALSE
           ELSE /\ loop' = [loop EXCEPT !.enemies =
                               [k \in 1..Len(loop.enemies) |->
                                   IF HasUpdate(loop.enemies[k]) THEN newEnemies[k]
                                   ELSE loop.enemies[k]]]
                /\ defeatTimeoutHandle' = (defeatTimeoutHandle \/ defeats > 0)
        /\ rafScheduled' = TRUE
        /\ UNCHANGED <<tick, levelIdx, pMaxGems>>

\* One animation frame that passes frame()'s guards: enemy AI and
\* projectiles, player.update, then the level logic.
FrameStep(dt, c) ==
    /\ rafScheduled
    /\ FrameRuns(levelIdx, loop.transitioning)
    /\ \E newEnemies \in {FrameEnemies(dt)} :
       \E newProjectiles \in {FrameProjectiles(dt)} :
       \E p \in {PlayerUpdate(player, dt, c, Level(levelIdx).platforms)} :
          FrameLogic(p, newEnemies, newProjectiles)

\* A frame of the engine driven with a controls object chosen for it
Frame(dt, c) == FrameStep(dt, c) /\ UNCHANGED inputVars

\* A frame of the engine under its keyboard: it reads controlsRef.current
\* and clears the two pressed flags after player.update
KeyFrame(dt) ==
    /\ FrameStep(dt, ControlsRead(controlsRef))
    /\ controlsRef' = [controlsRef EXCEPT !.jumpPressed = FALSE, !.dashPressed = FALSE]
    /\ seen' = [k \in InputKeys |->
                  seen[k] + (IF PressedFlag(controlsRef, k) THEN 1 ELSE 0)]
    /\ UNCHANGED <<held, presses>>

\* a keydown event of key k: a new physical press, or an auto-repeat of a
\* key that is down
KeyDown(k) ==
    /\ ~held[k] => presses < MaxPresses
    /\ controlsRef' = handleKeyDown(controlsRef, k)
    /\ held' = [held EXCEPT ![k] = TRUE]
    /\ seen' = IF held[k] THEN seen ELSE [seen EXCEPT ![k] = 0]
    /\ presses' = IF held[k] THEN presses ELSE presses + 1
    /\ UNCHANGED <<player, tick, engineVars>>

\* the keyup event of a key that is down
KeyUp(k) ==
    /\ held[k]
    /\ controlsRef' = handleKeyUp(controlsRef, k)
    /\ held' = [held EXCEPT ![k] = FALSE]
    /\ UNCHANGED <<player, tick, engineVars, seen, presses>>

\* The animation frame an effect instance requested while a transition is
\* showing: frame() returns at its guard and requests no further frame.
FrozenFrame ==
    /\ rafScheduled
    /\ ~FrameRuns(levelIdx, loop.transitioning)
    /\ rafScheduled' = FALSE
    /\ UNCHANGED <<player, tick, levelIdx, levelState, pLives, pScore, pGems, pMaxGems,
                   enemiesState, projectiles, loop, defeatTimeoutHandle,
                   completeTimers, events, inputVars>>

\* The 1900 ms timer of onLevelComplete, which captured the level index lvl.
CompleteTimeout(j) ==
    LET lvl == completeTimers[j]
        advance == lvl + 1 < NumLevels
        newIdx == IF advance THEN AdvanceTarget(lvl) ELSE levelIdx
        changed == newIdx # levelIdx
        ls == IF changed THEN FreshLevelState(newIdx) ELSE levelState
        ens == IF changed THEN LevelEnemies(newIdx) ELSE enemiesState
        ps == IF changed THEN <<>> ELSE projectiles
        rerun == MainLoopDepsChanged(levelIdx, newIdx,
                                     levelState.transitioning, ls.transitioning)
    IN  /\ completeTimers' = RemoveAt(completeTimers, j)
        /\ levelIdx' = newIdx
        /\ pGems' = IF advance THEN 0 ELSE pGems
        \* the level-change and enemy-init effects
        /\ levelState' = ls
        /\ pMaxGems' = IF changed THEN Len(Level(newIdx).gems) ELSE pMaxGems
        /\ player' = IF changed THEN NewPlayer(SPAWN_X, SPAWN_Y) ELSE player
        /\ enemiesState' = ens
        /\ projectiles' = ps
        \* the main-loop effect
        /\ IF rerun
           THEN /\ loop' = Closure(TRUE, ls, ens, ps, pLives)
                /\ defeatTimeoutHandle' = FALSE
                /\ rafScheduled' = TRUE
           ELSE UNCHANGED <<loop, defeatTimeoutHandle, rafScheduled>>
        /\ UNCHANGED <<tick, pLives, pScore, events, inputVars>>

\* The 1700 ms timer of defeatPlayer.  Every defeat changes
\* levelState.transitioning, so the effect's cleanup clears the timer in
\* the commit of the frame that set it: it is never pending between two
\* steps and is no part of Next.
DefeatTimeout ==
    /\ defeatTimeoutHandle
    /\ defeatTimeoutHandle' = FALSE
    /\ IF loop.pLives - 1 <= 0
       THEN /\ events' = [events EXCEPT !.gameOver = @ + 1]
            /\ UNCHANGED <<player, pGems>>
       ELSE /\ events' = [events EXCEPT !.respawn = @ + 1]
            /\ player' = NewPlayer(SPAWN_X, SPAWN_Y)
            /\ pGems' = 0
    /\ UNCHANGED <<tick, levelIdx, levelState, pLives, pScore, pMaxGems, enemiesState,
                   projectiles, loop, rafScheduled, completeTimers, inputVars>>

\* the reason DefeatTimeout is no part of Next: no step leaves the defeat
\* timer scheduled
DefeatTimerNeverPending == ~defeatTimeoutHandle

\* the dependency list of the level-change and enemy-init effects: [levelIdx]
LevelEffectsRun(oldIdx, newIdx) == oldIdx # newIdx

\* the updater restartLevel hands to setLevelIdx: lidx => lidx
RestartTarget(idx) == idx

\* The component after a click on Restart Level, with the parent's
\* gameFlowOverlay prop set (overlay) or not: restartLevel calls
\* setLevelIdx(lidx => lidx) unless an overlay shows, and the effects that
\* reset the level run only when levelIdx has changed.
Restarted(overlay) ==
    LET newIdx == IF overlay THEN levelIdx ELSE RestartTarget(levelIdx)
        changed == LevelEffectsRun(levelIdx, newIdx)
        ls == IF changed THEN FreshLevelState(newIdx) ELSE levelState
        ens == IF changed THEN LevelEnemies(newIdx) ELSE enemiesState
        ps == IF changed THEN <<>> ELSE projectiles
        rerun == MainLoopDepsChanged(levelIdx, newIdx,
                                     levelState.transitioning, ls.transitioning)
    IN  [ levelIdx |-> newIdx,
          levelState |-> ls,
          pMaxGems |-> IF changed THEN Len(Level(newIdx).gems) ELSE pMaxGems,
          player |-> IF changed THEN NewPlayer(SPAWN_X, SPAWN_Y) ELSE player,
          enemiesState |-> ens,
          projectiles |-> ps,
          loop |-> IF rerun THEN Closure(TRUE, ls, ens, ps, pLives) ELSE loop,
          defeatTimeoutHandle |-> IF rerun THEN FALSE ELSE defeatTimeoutHandle,
          rafScheduled |-> IF rerun THEN TRUE ELSE rafScheduled,
          pLives |-> pLives,
          pScore |-> pScore ]

\* a click on the Restart Level button
RestartLevel(overlay) ==
    LET r == Restarted(overlay)
    IN  /\ levelIdx' = r.levelIdx
        /\ levelState' = r.levelState
        /\ pMaxGems' = r.pMaxGems
        /\ player' = r.player
        /\ enemiesState' = r.enemiesState
        /\ projectiles' = r.projectiles
        /\ loop' = r.loop
        /\ defeatTimeoutHandle' = r.defeatTimeoutHandle
        /\ rafScheduled' = r.rafScheduled
        /\ pLives' = r.pLives
        /\ pScore' = r.pScore
        /\ UNCHANGED <<tick, pGems, completeTimers, events, inputVars>>

\* frame time after clamp(dt, 0, 0.045), in milliseconds
EngineDTs == {45}

\* what the key handlers can have left in controlsRef
EngineControls ==
    { NoKeys,
      [NoKeys EXCEPT !.right = TRUE],
      [NoKeys EXCEPT !.left = TRUE],
      [NoKeys EXCEPT !.right = TRUE, !.dashPressed = TRUE] }

Next ==
    \/ \E dt \in EngineDTs, c \in EngineControls : Frame(dt, c)
    \/ FrozenFrame
    \/ \E j \in 1..Len(completeTimers) : CompleteTimeout(j)
    \/ \E overlay \in BOOLEAN : RestartLevel(overlay)

Init == EngineInit /\ player = NewPlayer(SPAWN_X, SPAWN_Y) /\ tick = 0

Spec == Init /\ [][Next]_vars

\* a frame of the engine, whatever its frame time and controls
AnyFrame == \E dt \in EngineDTs, c \in EngineControls : Frame(dt, c)

\* the engine with its scheduling: a pending 1900 ms timer runs, and the
\* animation frame requested while a transition shows is delivered
SpecFair ==
    /\ Spec
    /\ WF_vars(FrozenFrame)
    /\ WF_vars(\E j \in 1..Len(completeTimers) : CompleteTimeout(j))

\* the engine under its keyboard
InputNext ==
    \/ \E dt \in EngineDTs : KeyFrame(dt)
    \/ FrozenFrame
    \/ \E j \in 1..Len(completeTimers) : CompleteTimeout(j)
    \/ \E k \in InputKeys : KeyDown(k)
    \/ \E k \in InputKeys : KeyUp(k)

SpecInput == Init /\ [][InputNext]_vars

----------------------------------------------------------------------------
(* Player.update on its own: the controller driven tick by tick on a small   *)
(* platform set, from start states drawn from bounded sets.                  *)

MaxTicks == 4

\* clamped frame times, in milliseconds (the frame loop clamps dt to [0, 0.045])
PlayerDTs == {16, 45}

\* a floor slab (the platform of the specification's first scenario), a thin
\* ledge above it and a wall standing on the slab's right end
TestPlatforms ==
    << [x |-> 0,   y |-> 100, w |-> 100, h |-> 10],
       [x |-> 0,   y |-> 60,  w |-> 40,  h |-> 2],
       [x |-> 100, y |-> 30,  w |-> 10,  h |-> 80] >>

PlayerControls ==
    { NoKeys,
      [NoKeys EXCEPT !.right = TRUE],
      [NoKeys EXCEPT !.jumpPressed = TRUE],
      [NoKeys EXCEPT !.jumpPressed = TRUE, !.left = TRUE],
      [NoKeys EXCEPT !.glide = TRUE],
      [NoKeys EXCEPT !.dashPressed = TRUE, !.right = TRUE] }

\* start states: a freshly constructed player placed on the slab, in the air
\* over the slab, over the ledge, or next to the wall, with a fall speed;
\* one over the bare world floor, one near the right world edge, and one
\* falling with two jumps used, and one placed inside the slab
PlayerStarts ==
    { [NewPlayer(10, y) EXCEPT !.vy = v * VEL] :
        y \in {86, 70, 20}, v \in {0, 400, 800} }
    \cup { [NewPlayer(88, y) EXCEPT !.vy = v * VEL] : y \in {86, 70}, v \in {0, 400} }
    \cup { NewPlayer(150, 160), NewPlayer(302, 150), NewPlayer(50, 95),
           [NewPlayer(10, 80) EXCEPT !.vy = 200 * VEL, !.jumpCount = 2] }

PlayerInit ==
    /\ player \in PlayerStarts
    /\ tick = 0
    /\ EngineInit

PlayerTick ==
    /\ tick < MaxTicks
    /\ \E dt \in PlayerDTs, c \in PlayerControls :
          player' = PlayerUpdate(player, dt, c, TestPlatforms)
    /\ tick' = tick + 1
    /\ UNCHANGED <<engineVars, inputVars>>

PlayerNext == PlayerTick

SpecPlayer == PlayerInit /\ [][PlayerNext]_vars

----------------------------------------------------------------------------
(* Properties of Player.update *)

\* the player's box is entirely above platform pl and overlaps it horizontally
AbovePlatform(p, pl) ==
    /\ p.y + PH <= pl.y * PX
    /\ p.x < (pl.x + pl.w) * PX
    /\ p.x + PW > pl.x * PX

\* C1: No tunneling.  From a start above a platform (horizontally overlapping
\* it, moving down or at rest), one Player.update leaves the player's bottom
\* edge at most one integration step (1 px) below the platform's top while
\* the box still overlaps the platform horizontally: it never ends below or
\* inside the platform.
C1_NoTunneling ==
    [][\A i \in 1..Len(TestPlatforms) :
          (/\ AbovePlatform(player, TestPlatforms[i])
           /\ player.vy >= 0
           /\ player'.x < (TestPlatforms[i].x + TestPlatforms[i].w) * PX
           /\ player'.x + PW > TestPlatforms[i].x * PX)
          => player'.y + PH <= TestPlatforms[i].y * PX + PX]_vars

\* C2: Jump count bound.  After every Player.update, 0 <= jumpCount <= MAX_JUMPS.
C2_JumpCountBound ==
    player.jumpCount >= 0 /\ player.jumpCount <= MAX_JUMPS

\* C2 witness: a third jump has been taken in one airborne episode
C2_Witness ==
    tick > 0 /\ player.jumpCount = MAX_JUMPS /\ ~player.onGround

\* the box one pixel below the player's collides with a platform, or the
\* player is on the world floor line
FlushBelow(p) ==
    \/ collisionTester(TestPlatforms, p.x, p.y + PX, PW, PH)
    \/ p.y = (PLAYER_GAME_HEIGHT - PLAYER_HEIGHT - 1) * PX

\* C11: Grounded invariant.  After every Player.update, onGround is true
\* if and only if vy >= 0 and the player's bottom edge is flush (collision
\* one pixel below) on a platform top or on the world floor.
C11_GroundedInvariant ==
    tick > 0 => (player.onGround <=> (player.vy >= 0 /\ FlushBelow(player)))

\* controlsRef on a tick with a fresh jump press and nothing else
JumpKey == [NoKeys EXCEPT !.jumpPressed = TRUE]

\* no wall contact: neither side probe collides and no wall is remembered
NoWallContact(p) ==
    /\ ~collisionTester(TestPlatforms, p.x - PX, p.y, PX, PH)
    /\ ~collisionTester(TestPlatforms, p.x + PW, p.y, PX, PH)
    /\ p.wallJumpBufferTimer = 0

\* C15: Triple-jump sequence.  From a grounded player with jumpCount = 0 and
\* no wall contact, jump presses on consecutive ticks take jumpCount
\* 0 -> 1 -> 2 -> 3, each of the three presses leaves an upward velocity, each
\* of smaller magnitude than the one before, and a fourth press changes
\* neither vy nor jumpCount (the update ends as it does without the press).
C15_TripleJump ==
    (tick > 0 /\ player.onGround /\ player.jumpCount = 0 /\ NoWallContact(player)) =>
        \A dt \in PlayerDTs :
            LET p1 == PlayerUpdate(player, dt, JumpKey, TestPlatforms)
                p2 == PlayerUpdate(p1, dt, JumpKey, TestPlatforms)
                p3 == PlayerUpdate(p2, dt, JumpKey, TestPlatforms)
                p4 == PlayerUpdate(p3, dt, JumpKey, TestPlatforms)
                q4 == PlayerUpdate(p3, dt, NoKeys, TestPlatforms)
            IN  /\ p1.jumpCount = 1 /\ p2.jumpCount = 2 /\ p3.jumpCount = 3
                /\ p1.vy < 0 /\ p2.vy < 0 /\ p3.vy < 0
                /\ Abs(p2.vy) < Abs(p1.vy)
                /\ Abs(p3.vy) < Abs(p2.vy)
                /\ p4.jumpCount = 3 /\ p4.vy = q4.vy

\* frame times for the rest property, in milliseconds: the ends of
\* [0, 0.045] and two values inside
RestDTs == {0, 1, 16, 45}

\* at rest on top of a platform: not moving vertically, the bottom edge on
\* the top edge of a platform under the box, the box inside no platform
AtRestOnPlatform(p) ==
    /\ p.vy = 0
    /\ ~collisionTester(TestPlatforms, p.x, p.y, PW, PH)
    /\ \E i \in 1..Len(TestPlatforms) :
          /\ p.y + PH = TestPlatforms[i].y * PX
          /\ p.x < (TestPlatforms[i].x + TestPlatforms[i].w) * PX
          /\ p.x + PW > TestPlatforms[i].x * PX

\* C16: Rest stability.  For a player at rest on top of a platform (vy = 0),
\* one Player.update with no control input and any dt in [0, 0.045] ends
\* with onGround = true and vy = 0 and leaves x and y unchanged.
C16_RestStability ==
    AtRestOnPlatform(player) =>
        \A dt \in RestDTs :
            LET q == PlayerUpdate(player, dt, NoKeys, TestPlatforms)
            IN  q.onGround /\ q.vy = 0 /\ q.x = player.x /\ q.y = player.y

\* an update has left the player at rest on the ledge
C16_Witness ==
    /\ tick > 0 /\ player.onGround /\ AtRestOnPlatform(player)
    /\ player.y + PH = 60 * PX

AtRestOnWorldFloor(p) ==
    /\ p.onGround /\ p.vy = 0 /\ p.jumpCount = 0
    /\ p.y = (PLAYER_GAME_HEIGHT - PLAYER_HEIGHT - 1) * PX
    /\ ~collisionTester(TestPlatforms, p.x, p.y + PX, PW, PH)

\* C22: World-floor landing counts as landing for jump arbitration.  For a
\* player that has come to rest on the world's lower bound with no platform
\* beneath, a jump press on a following tick starts a grounded jump:
\* vy = JUMP_VELOCITY and jumpCount 0 -> 1, as it would on a platform.
C22_WorldFloorJump ==
    (tick > 0 /\ AtRestOnWorldFloor(player)) =>
        \A dt \in PlayerDTs :
            \A q \in {PlayerUpdate(player, dt, JumpKey, TestPlatforms)} :
                q.vy = JUMP_VELOCITY * VEL /\ q.jumpCount = 1

\* C23: Landing invariant.  After every Player.update, onGround = true
\* implies jumpCount = 0 and isGliding = false.
C23_LandingInvariant ==
    tick > 0 => (player.onGround => (player.jumpCount = 0 /\ ~player.isGliding))

\* the player that started falling with two jumps used has landed on the slab
C23_Witness ==
    /\ tick = 1 /\ player.onGround /\ player.x = 10 * PX
    /\ player.y + PH = 100 * PX /\ player.vx = 0 /\ player.dashAvailable

\* the update ended in a jump off the ground: the grounded re-check succeeded
\* and the full jump velocity was applied
GroundedJump(p) == p.jumpCount = 1 /\ p.vy = JUMP_VELOCITY * VEL

\* C24: Dash charge.  A dash (vx = facing x DASH_VELOCITY) is applied only on
\* a tick with dashPressed and dashAvailable; a dash taken while airborne
\* uses up the charge, and the charge comes back only on a tick on which the
\* grounded re-check succeeds, so at most one dash occurs between two
\* grounded ticks.
C24_DashCharge ==
    [][ /\ Abs(player'.vx) = DASH_VELOCITY * VEL =>
              /\ player.dashAvailable
              /\ player'.vx = player'.facing * DASH_VELOCITY * VEL
              /\ \A dt \in PlayerDTs, c \in PlayerControls :
                    ~c.dashPressed => PlayerUpdate(player, dt, c, TestPlatforms) # player'
        /\ (/\ Abs(player'.vx) = DASH_VELOCITY * VEL
            /\ ~player'.onGround /\ ~GroundedJump(player'))
              => ~player'.dashAvailable
        /\ (~player.dashAvailable /\ player'.dashAvailable)
              => (player'.onGround \/ GroundedJump(player')) ]_vars

\* airborne with the charge used up, moving at the walking speed
C24_Witness ==
    /\ tick > 1 /\ ~player.dashAvailable /\ ~player.onGround
    /\ player.vx = MOVE_SPEED * VEL

StepTargetsX(p) ==
    { p.x + v * VEL * dt :
        v \in {-DASH_VELOCITY, -MOVE_SPEED, MOVE_SPEED, DASH_VELOCITY}, dt \in PlayerDTs }

StepTargetsY(p) ==
    { p.y + (p.vy + g * dt) * dt : g \in {GRAVITY, GLIDE_GRAVITY}, dt \in PlayerDTs }

\* C26: Bounded stepping. From every player state, overlapping geometry or
\* not, each stepping loop ends, and the number of its passes is at most the
\* whole-pixel length of the intended motion on that axis plus one.
C26_BoundedStepping ==
    /\ \A tx \in StepTargetsX(player) :
          StepX(TestPlatforms, player.x, player.y, tx, Sign(tx - player.x), FALSE).n
              <= Abs(tx - player.x) \div PX + 1
    /\ \A ty \in StepTargetsY(player) :
          StepY(TestPlatforms, player.x, player.y, ty, Sign(ty - player.y)).n
              <= Abs(ty - player.y) \div PX + 1

\* an update has run and a vertical loop of several passes uses the whole
\* allowance: pixel length plus one
C26_Witness ==
    /\ tick > 0
    /\ \E ty \in StepTargetsY(player) :
          \E r \in {StepY(TestPlatforms, player.x, player.y, ty, Sign(ty - player.y))} :
              r.n >= 2 /\ ~r.hit /\ r.n = Abs(ty - player.y) \div PX + 1

\* a player overlapping geometry from which a loop is entered and ends at
\* its first pass
C26_OverlapStepped ==
    /\ collisionTester(TestPlatforms, player.x, player.y, PW, PH)
    /\ \E tx \in StepTargetsX(player) :
          StepX(TestPlatforms, player.x, player.y, tx, Sign(tx - player.x), FALSE).n = 1

\* C35: Horizontal velocity is memoryless.  Whatever vx the previous update
\* left in the player, the wall jump's outward velocity included, the next
\* update (one is still to run: tick < MaxTicks) gives the result it gives
\* from the same player with vx = 0: the vx it integrates comes from that
\* tick's controls alone.
C35_VxMemoryless ==
    []((player.vx # 0 /\ tick < MaxTicks) =>
          \A dt \in PlayerDTs, c \in PlayerControls :
              \A z \in {[player EXCEPT !.vx = 0]} :
                  PlayerUpdate(player, dt, c, TestPlatforms)
                      = PlayerUpdate(z, dt, c, TestPlatforms))

\* an update has just made a wall jump: the player carries its outward vx
C35_Witness ==
    /\ tick > 0 /\ tick < MaxTicks
    /\ Abs(player.vx) = WALL_JUMP_X_VELOCITY * VEL
    /\ player.vy = WALL_JUMP_Y_VELOCITY * VEL

\* the update that produced q under controls c gave the player an upward
\* jump impulse: a wall jump, a ground jump or an air jump set vy in step 8
JumpImpulse(c, q) ==
    /\ c.jumpPressed
    /\ ~q.onGround
    /\ q.vy \in { WALL_JUMP_Y_VELOCITY * VEL, JUMP_VELOCITY * VEL,
                  (JUMP_VELOCITY * VEL * AIR_JUMP_FACTOR) \div 1000 }

\* the largest number of jump impulses the player can receive in at most n
\* further updates from p before the first update that ends grounded
RECURSIVE ImpulsesBeforeLanding(_, _)
ImpulsesBeforeLanding(p, n) ==
    IF n = 0 THEN 0
    ELSE LET counts ==
               { IF q[2].onGround THEN 0
                 ELSE (IF JumpImpulse(q[1], q[2]) THEN 1 ELSE 0)
                      + ImpulsesBeforeLanding(q[2], n - 1) :
                   q \in { <<c, PlayerUpdate(p, dt, c, TestPlatforms)>> :
                             dt \in PlayerDTs, c \in PlayerControls } }
         IN  CHOOSE m \in counts : \A k \in counts : k <= m

\* C38: Jump impulses per airborne episode.  Between two consecutive landings
\* the player receives at most MAX_JUMPS upward jump impulses in total, wall
\* jumps counted with ground and air jumps: no run of updates without a
\* landing holds more than MAX_JUMPS impulses.
C38_ImpulsesPerEpisode ==
    ImpulsesBeforeLanding(player, MaxTicks - tick) <= MAX_JUMPS

\* C12: World-bound invariant. After every Player.update the player's box lies
\* inside the world: 0 <= x <= worldWidth - PLAYER_WIDTH and
\* 0 <= y <= worldHeight - PLAYER_HEIGHT.
C12_WorldBounds ==
    tick > 0 =>
        /\ 0 <= player.x /\ player.x <= (PLAYER_GAME_WIDTH - PLAYER_WIDTH) * PX
        /\ 0 <= player.y /\ player.y <= (PLAYER_GAME_HEIGHT - PLAYER_HEIGHT) * PX

\* an update has pushed the player against the left world edge
C12_Witness == tick > 0 /\ player.x = 0

----------------------------------------------------------------------------
(* Properties of the GameEngine goal / defeat machine *)

\* number of gems of levelState marked collected
CollectedCount(ls) == Cardinality({k \in 1..Len(ls.gems) : ls.gems[k]})

\* completion notifications sent so far (next level or all levels complete)
Completions(ev) == ev.nextLevel + ev.allComplete

\* a step in which one of the 1900 ms level-advance timers ran
TimerStep == Len(completeTimers') < Len(completeTimers)

\* C3: Defeat single-shot.  A life is lost only on a tick that starts in
\* play, never while a defeat or completion transition is showing; the tick
\* takes exactly one life, sends exactly one defeat notification and enters
\* the transition, so a hazard overlap sustained over the following ticks
\* costs nothing more within that life.
C3_DefeatSingleShot ==
    [][(pLives' # pLives \/ events'.defeated # events.defeated)
          => /\ ~levelState.transitioning
             /\ pLives' = pLives - 1
             /\ events'.defeated = events.defeated + 1
             /\ levelState'.transitioning]_vars

\* C3 witness: a life was lost, the player still overlaps the enemy, and a
\* later animation frame has run without taking a second life
C3_Witness ==
    /\ pLives = START_LIVES - 1
    /\ events.defeated = 1
    /\ ~levelState.completed
    /\ EnemyHit(player, enemiesState)
    /\ ~rafScheduled

\* C4: Every triggered defeat is eventually resolved.  A defeat is resolved
\* by its delay timer alone (respawn with lives left, game over without), so
\* a defeat that is not resolved yet must still have that timer scheduled.
C4_DefeatResolved ==
    events.defeated > events.respawn + events.gameOver => defeatTimeoutHandle

\* C5: Level-complete single-shot.  Within one level attempt the completion
\* effects (bonus, completed/transitioning flags, notification) happen at
\* most once, they happen on a tick at which every gem is collected and the
\* player overlaps the exit, and the first such tick of the attempt has them.
C5_CompleteSingleShot ==
    [][LET fired == Completions(events') - Completions(events)
           goal == /\ CollectedCount(levelState') = Len(levelState'.gems)
                   /\ ExitOverlap(player', levelIdx)
       IN  /\ fired \in {0, 1}
           /\ fired = 1 => /\ ~levelState.completed
                           /\ levelState'.completed /\ levelState'.transitioning
                           /\ pScore' >= pScore + LEVEL_BONUS
                           /\ goal
           /\ (~TimerStep /\ ~levelState.transitioning /\ goal) => fired = 1]_vars

\* C6: Completion only when all gems are collected and the exit is
\* overlapped: the completed flag is raised only by a tick after which the
\* collected count equals the level's gem total and the player overlaps the
\* exit rectangle.
C6_CompletionNeedsAllGems ==
    [][(~levelState.completed /\ levelState'.completed)
          => /\ pGems' = pMaxGems'
             /\ \A k \in 1..Len(levelState'.gems) : levelState'.gems[k]
             /\ ExitOverlap(player', levelIdx')]_vars

\* C7: Gem idempotence.  Within a level attempt a collected gem stays
\* collected, and the collected counter grows by one for each gem that
\* becomes collected and by nothing else, so it always equals the number of
\* collected gems however long the player overlaps them.
C7_GemIdempotence ==
    [][levelIdx' = levelIdx
          => /\ \A k \in 1..Len(levelState.gems) :
                   levelState.gems[k] => levelState'.gems[k]
             /\ pGems' - pGems = CollectedCount(levelState') - CollectedCount(levelState)
             /\ pGems' = CollectedCount(levelState')]_vars

\* C7 witness: on level 1 the gem at the spawn point was collected and the
\* player, two steps further, still overlaps it
C7_Witness ==
    /\ levelIdx = 1
    /\ levelState.gems[1]
    /\ pGems = 1
    /\ player.x = (SPAWN_X + 8) * PX
    /\ GemPicked(FALSE, player, Level(1).gems[1])

\* C8: Completion monotonicity.  The tick that sends the completion
\* notification leaves completed true, and once completed is true no step
\* that keeps the level index (gem pickup, enemy overlap, defeat, frame)
\* sets it back to false.
C8_CompletionMonotone ==
    [][/\ Completions(events') > Completions(events) => levelState'.completed
       /\ (levelState.completed /\ levelIdx' = levelIdx) => levelState'.completed]_vars

\* C8 witness: the level was completed and a life was lost in the same
\* attempt, and completed is still true
C8_Witness ==
    /\ levelState.completed
    /\ events.defeated > 0
    /\ pLives < START_LIVES

\* C9: Defeat / level-complete mutual exclusion.  A tick enters at most one
\* of the two transitions (completion when both conditions hold, and then
\* no life is lost), and while a transition is showing neither fires.
C9_MutualExclusion ==
    [][LET fired == Completions(events') > Completions(events)
           defeated == pLives' # pLives \/ events'.defeated # events.defeated
       IN  /\ ~(fired /\ defeated)
           /\ levelState.transitioning => ~fired /\ ~defeated]_vars

\* the state a level attempt starts from: the player new at the level's
\* playerStart, no gem collected, the enemies as createEnemyInstance made them
AttemptReset(p, ls, ens, idx) ==
    /\ p = NewPlayer(Level(idx).playerStart.x, Level(idx).playerStart.y)
    /\ CollectedCount(ls) = 0
    /\ ens = LevelEnemies(idx)

\* C13: Respawn reset.  When a defeat resolves with lives remaining, the
\* player is at the level's playerStart, every gem is uncollected and every
\* enemy is in its initial state.  A defeat is over in the step after which
\* its delay timer is no longer scheduled.
C13_RespawnReset ==
    [][ (/\ events'.defeated > events.defeated \/ defeatTimeoutHandle
         /\ ~defeatTimeoutHandle'
         /\ pLives' > 0)
        => AttemptReset(player', levelState', enemiesState', levelIdx') ]_vars

\* the player's box overlaps the box of an enemy record of any type
AnyEnemyOverlap(p, ens) ==
    \E k \in 1..Len(ens) :
        rectsOverlap(p.x, p.y, PW, PH, ens[k].x, ens[k].y,
                     (IF ens[k].type = "hopper" THEN 12 ELSE 14) * PX,
                     (IF ens[k].type = "hopper" THEN 13 ELSE 12) * PX)

\* C14: Hazard trigger.  On a tick that starts neither transitioning nor
\* completed, if the player then overlaps an enemy record (walker, hopper,
\* chaser or projectile shooter) or a live projectile, a defeat is triggered
\* on that tick.
C14_HazardTrigger ==
    [][ (/\ rafScheduled /\ ~levelState.transitioning /\ ~levelState.completed
         /\ levelIdx' = levelIdx
         /\ player' # player \/ enemiesState' # enemiesState
         /\ \/ AnyEnemyOverlap(player', enemiesState')
            \/ ProjectileHit(player', projectiles'))
        => events'.defeated = events.defeated + 1 ]_vars

\* C17: Walker turn-around.  A walker with x = patrolMax and dir = 1 has,
\* after the engine's next enemy tick, x = patrolMax and dir = -1.
C17_WalkerTurnAround ==
    [][ \A k \in 1..Len(enemiesState) :
          (/\ rafScheduled /\ ~loop.transitioning
           /\ loop.enemies = enemiesState
           /\ enemiesState[k].type = "walker"
           /\ enemiesState[k].x = enemiesState[k].patrolMax
           /\ enemiesState[k].dir = 1)
          => /\ Len(enemiesState') = Len(enemiesState)
             /\ enemiesState'[k].x = enemiesState[k].patrolMax
             /\ enemiesState'[k].dir = -1 ]_vars

\* C18: Edge-triggered input.  For each physical press of the jump or dash
\* key (one key-down, auto-repeats, then its key-up) Player.update sees the
\* pressed flag on exactly one tick, whatever the interleaving of key events
\* and frames: never on a second tick, and when the key goes up the press has
\* been seen once or is still latched for the next update.
C18_EdgeTriggered ==
    [][ \A k \in InputKeys :
          /\ seen'[k] <= 1
          /\ (held[k] /\ ~held'[k])
                => seen[k] + (IF PressedFlag(controlsRef', k) THEN 1 ELSE 0) = 1 ]_vars

\* the level-advance timer of a completion runs in this step
AdvanceTimerRuns == Len(completeTimers') < Len(completeTimers)

\* C19: Level advance.  After a completion on a level that is not the last,
\* when the delay timer runs the level index goes up by exactly 1 and
\* gameplay resumes on the new level: a fresh player, all of the level's
\* gems uncollected, its enemies in their initial state, no projectiles,
\* transitioning and completed both false, and a frame requested.
C19_LevelAdvance ==
    [][ (AdvanceTimerRuns /\ levelIdx + 1 < NumLevels) =>
          /\ levelIdx' = levelIdx + 1
          /\ player' = NewPlayer(SPAWN_X, SPAWN_Y)
          /\ Len(levelState'.gems) = Len(Level(levelIdx').gems)
          /\ CollectedCount(levelState') = 0
          /\ enemiesState' = LevelEnemies(levelIdx')
          /\ projectiles' = <<>>
          /\ ~levelState'.transitioning /\ ~levelState'.completed
          /\ rafScheduled' /\ FrameRuns(levelIdx', loop'.transitioning)
          /\ loop'.enemies = enemiesState' ]_vars

\* the second level has just started after the first was completed
C19_Witness ==
    /\ levelIdx = 1 /\ events.nextLevel = 1 /\ completeTimers = <<>>
    /\ player = NewPlayer(SPAWN_X, SPAWN_Y)
    /\ enemiesState = LevelEnemies(1)
    /\ ~levelState.transitioning

\* C20: Last-level completion.  When a completion occurs on the last level,
\* the all-levels-complete event is signalled and the next-level event is
\* not, and the level index never advances past the last level.
C20_LastLevelCompletion ==
    [][ /\ levelIdx' <= NumLevels - 1
        /\ (levelIdx = NumLevels - 1 /\ ~levelState.completed /\ levelState'.completed)
              => /\ events'.allComplete = events.allComplete + 1
                 /\ events'.nextLevel = events.nextLevel ]_vars

\* the last level was completed and its delay timer has run
C20_Witness ==
    /\ levelIdx = NumLevels - 1 /\ levelState.completed
    /\ events.allComplete = 1 /\ events.nextLevel = NumLevels - 1
    /\ completeTimers = <<>>

\* a step in which a frame ran the enemy pass
EnemyTick ==
    rafScheduled /\ FrameRuns(levelIdx, loop.transitioning) /\ ~TimerStep

\* the walker's two moves of one frame, before clamping: the first from en,
\* the second from where WalkerSlime.update left it; one of them is at or
\* beyond a patrol bound
WalkerReachesBound(en, dt) ==
    LET x1 == en.x + en.dir * en.speed * dt * 1000
        mid == WalkerSlimeUpdate(en, dt)
        x2 == mid.x + mid.dir * mid.speed * dt * 1000
    IN  \/ x1 <= en.patrolMin \/ x1 >= en.patrolMax
        \/ x2 <= en.patrolMin \/ x2 >= en.patrolMax

\* C27: Walker patrol invariant.  After every enemy tick each walker has
\* patrolMin <= x <= patrolMax and dir in {-1, 1}, and its dir differs from
\* the dir before the tick only when its x reached or passed a patrol bound
\* on that tick.
C27_WalkerPatrol ==
    [][ EnemyTick =>
          /\ Len(enemiesState') = Len(loop.enemies)
          /\ \A k \in 1..Len(loop.enemies) :
                loop.enemies[k].type = "walker" =>
                    /\ enemiesState'[k].patrolMin <= enemiesState'[k].x
                    /\ enemiesState'[k].x <= enemiesState'[k].patrolMax
                    /\ enemiesState'[k].dir \in {-1, 1}
                    /\ enemiesState'[k].dir # loop.enemies[k].dir =>
                          \E dt \in EngineDTs : WalkerReachesBound(loop.enemies[k], dt) ]_vars

\* a walker that has been ticked, is inside its patrol range away from both
\* bounds, and walks left: it has turned around at patrolMax
C27_Witness ==
    /\ rafScheduled /\ loop.enemies = enemiesState
    /\ \E k \in 1..Len(enemiesState) :
          /\ enemiesState[k].type = "walker"
          /\ enemiesState[k].dir = -1
          /\ enemiesState[k].patrolMin < enemiesState[k].x
          /\ enemiesState[k].x < enemiesState[k].patrolMax

\* the hopper a has just launched from the record b it was ticked from
HopperLaunched(b, a) ==
    a.vy = b.jumpVy /\ a.dir = -b.dir /\ a.jumpTimer = b.jumpCooldown

\* C28: Hopper launch transition.  On every enemy tick a hopper launches
\* (vy := jumpVy, dir negated, jumpTimer := jumpCooldown) if and only if it
\* is grounded on that tick and its jumpTimer has run down to 0 or below; it
\* never launches while airborne; and its jumpTimer goes down only on a tick
\* on which it is grounded.
C28_HopperLaunch ==
    [][ EnemyTick =>
          \A k \in 1..Len(loop.enemies) :
             (loop.enemies[k].type = "hopper" /\ k <= Len(enemiesState')) =>
                /\ HopperLaunched(loop.enemies[k], enemiesState'[k])
                      <=> /\ enemiesState'[k].onGround
                          /\ \E dt \in EngineDTs : loop.enemies[k].jumpTimer - dt <= 0
                /\ HopperLaunched(loop.enemies[k], enemiesState'[k])
                      => enemiesState'[k].onGround
                /\ enemiesState'[k].jumpTimer < loop.enemies[k].jumpTimer
                      => (loop.enemies[k].onGround \/ enemiesState'[k].onGround) ]_vars

\* the world ground line of the hopper branch
HopperGroundY == (GAME_HEIGHT - HOPPER_GROUND_MARGIN) * PX

\* a hopper of the current enemy list is in the air
HopperAirborne ==
    \E k \in 1..Len(enemiesState) :
        enemiesState[k].type = "hopper" /\ ~enemiesState[k].onGround

\* the hopper box (12 x 13) rests on the top of a platform of the level or
\* on the world ground line
HopperRests(en) ==
    \/ en.y + 13 * PX = HopperGroundY
    \/ \E i \in 1..Len(Level(levelIdx).platforms) :
          LET pl == Level(levelIdx).platforms[i]
          IN  /\ en.y + 13 * PX = pl.y * PX
              /\ en.x + 11 * PX > pl.x * PX
              /\ en.x < (pl.x + pl.w) * PX

\* a hopper of the current enemy list is grounded, at rest on a surface
HopperLanded ==
    \E k \in 1..Len(enemiesState) :
        /\ enemiesState[k].type = "hopper"
        /\ enemiesState[k].onGround
        /\ enemiesState[k].vy = 0
        /\ HopperRests(enemiesState[k])

\* C29: Hopper landing.  No hopper is ever below the world ground line, and
\* while frames keep running an airborne hopper is eventually grounded
\* again, with vy = 0 and its box resting on a platform top or on the world
\* ground line.
C29_HopperLanding ==
    /\ [](\A k \in 1..Len(enemiesState) :
            enemiesState[k].type = "hopper" =>
                enemiesState[k].y + 13 * PX <= HopperGroundY)
    /\ ([]<><<AnyFrame>>_vars) => (HopperAirborne ~> HopperLanded)

\* the chaser en is within its activation range of the player p
ChaserActive(en, p) ==
    Abs(p.x - en.x) < en.activeRange /\ Abs(p.y - en.y) < CHASER_BAND * PX

\* C30: Chaser activation.  On every enemy tick a chaser's x changes only if
\* the player is horizontally closer than activeRange and vertically inside
\* the band; its y does not change; a move is toward the player; and x stays
\* within [0, world width - enemy width].
C30_ChaserActivation ==
    [][ EnemyTick =>
          \A k \in 1..Len(loop.enemies) :
             (loop.enemies[k].type = "chaser" /\ k <= Len(enemiesState')) =>
                /\ enemiesState'[k].y = loop.enemies[k].y
                /\ enemiesState'[k].x # loop.enemies[k].x =>
                      /\ ChaserActive(loop.enemies[k], player)
                      /\ Sign(enemiesState'[k].x - loop.enemies[k].x)
                            = Sign(player.x - loop.enemies[k].x)
                /\ ~ChaserActive(loop.enemies[k], player) =>
                      enemiesState'[k].x = loop.enemies[k].x
                /\ 0 <= enemiesState'[k].x
                /\ enemiesState'[k].x <= (GAME_WIDTH - 14) * PX ]_vars

\* a chaser that a tick has moved off the x of its level record, toward a
\* player inside its range
C30_Witness ==
    /\ levelIdx < NumLevels
    /\ Len(enemiesState) = Len(Level(levelIdx).enemies)
    /\ \E k \in 1..Len(enemiesState) :
          /\ enemiesState[k].type = "chaser"
          /\ enemiesState[k].x < Level(levelIdx).enemies[k].x * PX
          /\ player.x < enemiesState[k].x

\* the projectile that shooter record b pushes, after the frame's move by dt
ShotAfterMove(b, dt) ==
    [x |-> b.x + 7 * PX + b.dir * PROJECTILE_SPEED * dt * 1000, y |-> b.y + 10 * PX,
     vx |-> b.dir * PROJECTILE_SPEED, vy |-> 0, t |-> 0]

\* the horizontal range outside which the frame drops a projectile
ProjectileInRange(q) ==
    q.x > -PROJECTILE_MARGIN * PX /\ q.x < (GAME_WIDTH + PROJECTILE_MARGIN) * PX

\* the shooters of the ticked enemy list whose timer reaches cooldown with dt
ShootersDue(dt) ==
    {k \in 1..Len(loop.enemies) :
        loop.enemies[k].type = "projectile"
        /\ loop.enemies[k].t + dt >= loop.enemies[k].cooldown}

\* C31: Shooter cooldown.  On every enemy tick each projectile-shooter adds
\* at most one projectile; it adds one exactly when its timer t, with this
\* tick's dt added, has reached cooldown, and then t = 0 (otherwise t keeps
\* the sum); the projectile moves horizontally in the shooter's dir; and the
\* shooter's x and y do not change.
C31_ShooterCooldown ==
    [][ EnemyTick =>
          \E dt \in EngineDTs :
             /\ Len(projectiles') <= Len(loop.projectiles) + Cardinality(ShootersDue(dt))
             /\ \A k \in 1..Len(loop.enemies) :
                  (loop.enemies[k].type = "projectile" /\ k <= Len(enemiesState')) =>
                     /\ enemiesState'[k].x = loop.enemies[k].x
                     /\ enemiesState'[k].y = loop.enemies[k].y
                     /\ k \in ShootersDue(dt) =>
                           /\ enemiesState'[k].t = 0
                           /\ ProjectileInRange(ShotAfterMove(loop.enemies[k], dt)) =>
                                \E j \in 1..Len(projectiles') :
                                    projectiles'[j] = ShotAfterMove(loop.enemies[k], dt)
                     /\ k \notin ShootersDue(dt) =>
                           /\ enemiesState'[k].t = loop.enemies[k].t + dt
                           /\ \A j \in 1..Len(projectiles') :
                                 projectiles'[j].y # loop.enemies[k].y + 10 * PX ]_vars

\* a shooter has fired on a tick: its timer is back at 0 and its projectile
\* is in the list, moved in the shooter's dir
C31_Witness ==
    \E k \in 1..Len(enemiesState) :
        /\ enemiesState[k].type = "projectile"
        /\ enemiesState[k].t = 0
        /\ \E j \in 1..Len(projectiles) :
              /\ projectiles[j].y = enemiesState[k].y + 10 * PX
              /\ projectiles[j].vx = enemiesState[k].dir * PROJECTILE_SPEED
              /\ projectiles[j].x > enemiesState[k].x + 7 * PX

\* C32: Projectile lifecycle.  After every enemy tick every projectile of the
\* list has -10 < x < world width + 10 and the vx and vy it was spawned
\* with (vx = dir * 110 of a shooter, vy = 0, y at the shooter's muzzle); a
\* projectile whose move takes its x out of that range is not in the list
\* after the tick, and none of the list is out of range afterwards.
C32_ProjectileLifecycle ==
    [][ /\ \A j \in 1..Len(projectiles') : ProjectileInRange(projectiles'[j])
        /\ EnemyTick =>
              \E dt \in EngineDTs :
                 /\ \A j \in 1..Len(projectiles') :
                       \/ \E k \in ShootersDue(dt) :
                             projectiles'[j] = ShotAfterMove(loop.enemies[k], dt)
                       \/ \E i \in 1..Len(loop.projectiles) :
                             /\ projectiles'[j].vx = loop.projectiles[i].vx
                             /\ projectiles'[j].vy = loop.projectiles[i].vy
                             /\ projectiles'[j].x = loop.projectiles[i].x
                                    + loop.projectiles[i].vx * dt * 1000
                 /\ \A k \in ShootersDue(dt) :
                       ~ProjectileInRange(ShotAfterMove(loop.enemies[k], dt)) =>
                          \A j \in 1..Len(projectiles') :
                             projectiles'[j].y # loop.enemies[k].y + 10 * PX ]_vars

\* a tick has run on which one shooter's projectile stayed in the list and
\* another's, pushed next to the right margin, left the range and is gone
C32_Witness ==
    /\ projectiles # <<>>
    /\ \E k \in 1..Len(enemiesState) :
          /\ enemiesState[k].type = "projectile"
          /\ enemiesState[k].cooldown <= 45
          /\ enemiesState[k].x + 7 * PX + PROJECTILE_SPEED * 45 * 1000
                >= (GAME_WIDTH + PROJECTILE_MARGIN) * PX
          /\ \A j \in 1..Len(projectiles) :
                projectiles[j].y # enemiesState[k].y + 10 * PX

\* a frame is requested and will pass frame()'s guards
FramePending == rafScheduled /\ FrameRuns(levelIdx, loop.transitioning)

\* C33: Enemy state continuity.  After an enemy tick, the next tick that
\* will run starts from the enemy records and the projectile list this tick
\* produced, so that timers, positions and live projectiles accumulate from
\* tick to tick.
C33_EnemyContinuity ==
    [][ (EnemyTick /\ FramePending') =>
          /\ loop'.enemies = enemiesState'
          /\ loop'.projectiles = projectiles' ]_vars

\* C34: One update rule per enemy per tick.  On every enemy tick a walker
\* ends where one move of dir * speed * dt, clamped to its patrol range,
\* takes it: it is not moved twice in the tick.
C34_OneUpdatePerTick ==
    [][ EnemyTick =>
          \E dt \in EngineDTs :
             \A k \in 1..Len(loop.enemies) :
                (loop.enemies[k].type = "walker" /\ k <= Len(enemiesState')) =>
                   enemiesState'[k].x =
                       clamp(loop.enemies[k].x
                                + loop.enemies[k].dir * loop.enemies[k].speed * dt * 1000,
                             loop.enemies[k].patrolMin, loop.enemies[k].patrolMax) ]_vars

\* the frame loop's fall-off condition on the player a frame has updated
FellOff == player.y > (GAME_HEIGHT + FALL_MARGIN) * PX

\* no state of the engine has the player below the fall line: Player.update
\* ends with y <= 180 - 14 - 1, and the fall line is 360 + 32
FallDeathNeverHolds == ~FellOff

\* C36: The fall-death trigger is reachable.  Stated of the engine's runs: a
\* run in which frames keep being delivered comes to a frame after whose
\* Player.update the fall-off condition holds.  (FallDeathNeverHolds says
\* that no run at all does.)
C36_FallDeathReachable ==
    ([]<><<AnyFrame>>_vars) => <>FellOff

\* the exit rectangles of the six levels of the level table, in pixels
SourceExits ==
    << [x |-> 610, y |-> 295, w |-> 26, h |-> 45],
       [x |-> 620, y |-> 235, w |-> 18, h |-> 61],
       [x |-> 620, y |-> 290, w |-> 19, h |-> 44],
       [x |-> 622, y |-> 78, w |-> 18, h |-> 48],
       [x |-> 24, y |-> 63, w |-> 18, h |-> 47],
       [x |-> 622, y |-> 39, w |-> 16, h |-> 49] >>

\* some position the world clamp of Player.update allows (0 <= x <= 320 - 12,
\* 0 <= y <= 180 - 14 - 1) has the player's box overlap rectangle e
ExitInPlayerRegion(e) ==
    /\ \E x \in 0..(PLAYER_GAME_WIDTH - PLAYER_WIDTH) :
          x < e.x + e.w /\ x + PLAYER_WIDTH > e.x
    /\ \E y \in 0..(PLAYER_GAME_HEIGHT - PLAYER_HEIGHT - 1) :
          y < e.y + e.h /\ y + PLAYER_HEIGHT > e.y

\* C37: Level completion is reachable.  The player is always inside the
\* region Player.update confines it to, and for every level of the level
\* table that region holds a position whose box overlaps the level's exit
\* (without one, no sequence of ticks and inputs brings the player onto the
\* exit).
C37_ExitReachable ==
    /\ 0 <= player.x /\ player.x <= (PLAYER_GAME_WIDTH - PLAYER_WIDTH) * PX
    /\ 0 <= player.y /\ player.y <= (PLAYER_GAME_HEIGHT - PLAYER_HEIGHT - 1) * PX
    /\ \A i \in 1..Len(SourceExits) : ExitInPlayerRegion(SourceExits[i])

\* C39: Restart Level resets the attempt.  A click on Restart Level while no
\* game-flow overlay shows leaves the player at the level start, every gem of
\* the current level uncollected and the level's enemies as the level
\* defines them, with lives and score as they were.
C39_RestartResets ==
    \A r \in {Restarted(FALSE)} :
        /\ r.player = NewPlayer(SPAWN_X, SPAWN_Y)
        /\ r.levelIdx = levelIdx
        /\ \A g \in 1..Len(r.levelState.gems) : ~r.levelState.gems[g]
        /\ r.enemiesState = LevelEnemies(levelIdx)
        /\ r.projectiles = <<>>
        /\ r.pLives = pLives
        /\ r.pScore = pScore

\* C10: Gameplay frozen during transition.  While levelState.transitioning
\* is true no animation frame changes the player, the enemies, the
\* projectiles, the gems, the lives or the score; only the delayed level
\* change does.
C10_FrozenDuringTransition ==
    [][(levelState.transitioning /\ ~TimerStep)
          => UNCHANGED <<player, enemiesState, projectiles, levelState,
                         pLives, pScore, pGems, levelIdx>>]_vars

\* C10 witness: a transition is showing and the animation frame requested
\* by the new effect instance has run and returned at its guard
C10_Witness ==
    /\ levelState.transitioning
    /\ ~rafScheduled
    /\ Len(completeTimers) > 0

====
